---- MODULE Spec2Model ----
(***************************************************************************)
(* A model of nova/volume/cinder: the cinder-backed volume service         *)
(* (cinder.py, class cindervolumeService) and the fake volume service      *)
(* (fake.py, class _FakeVolumeService).                                    *)
(*                                                                         *)
(* Every public operation of a service is one action: the services keep no *)
(* state between calls, so a call is modelled whole, from its arguments    *)
(* and from what the remote cinder server answers during the call, to its  *)
(* return value or the exception it raises.  The result of the call last   *)
(* made is kept in ret until the caller takes it (action Return).          *)
(*                                                                         *)
(* Spec is the reading calls of the cinder-backed service over a server    *)
(* whose records stay as they start, with the translation of records and   *)
(* the choice of the server; SpecWrites is the writing calls of both       *)
(* services and the reading calls of the fake one, in any order;           *)
(* SpecDeletes is two calls of delete for one id whose remote calls        *)
(* interleave.                                                             *)
(***************************************************************************)
EXTENDS Integers, Sequences, FiniteSets, TLC

VARIABLES
    store,      \* the remote cinder server: volume id -> volume record, for the
                \* ids the calls write (WriteIds)
    volumes,    \* _FakeVolumeService.volumes: volume id -> metadata
    ret,        \* the call last made: its arguments, what it did, its result
    running     \* two calls of delete under way at once: where each one is

vars == <<store, volumes, ret, running>>

(***************************************************************************)
(* Bounds of the model.                                                    *)
(***************************************************************************)
MaxRetries == 2     \* FLAGS.cinder_num_retries ranges over 0..MaxRetries
MaxPage == 3        \* a page of the remote listing holds at most MaxPage records
MaxFetch == 4       \* a scripted backend serves at most MaxFetch non-empty pages
MaxLimit == 5       \* a caller's limit ranges over 1..MaxLimit
MaxPool == 2        \* FLAGS.cinder_api_servers holds at most MaxPool entries

(***************************************************************************)
(* Python values.  A value carries its type, so that 1 and '1' differ as   *)
(* they do in Python, and str() maps both to the same text.                *)
(***************************************************************************)
None == [py |-> "None", v |-> "None"]
PyStr(s) == [py |-> "str", v |-> s]
PyInt(n) == [py |-> "int", v |-> n]
PyBool(b) == [py |-> "bool", v |-> IF b THEN "True" ELSE "False"]
PyDatetime(s) == [py |-> "datetime", v |-> s]
PyList(s) == [py |-> "list", v |-> s]
PyTuple(s) == [py |-> "tuple", v |-> s]

\* str(x)
str(x) == IF x.py = "int" THEN ToString(x.v) ELSE x.v

\* bool(x): None, '', 0 and False are false
Truthy(x) ==
    /\ x.py # "None"
    /\ ~(x.py = "str" /\ x.v = "")
    /\ ~(x.py = "int" /\ x.v = 0)
    /\ ~(x.py = "bool" /\ x.v = "False")
    /\ ~(x.py = "list" /\ x.v = "[]")

\* dict.get(key), dict.get(key, default)
Get(d, key) == IF key \in DOMAIN d THEN d[key] ELSE None
GetOr(d, key, default) == IF key \in DOMAIN d THEN d[key] ELSE default

\* d with d[key] = val
Put(d, key, val) == [k \in DOMAIN d \cup {key} |-> IF k = key THEN val ELSE d[k]]

Restrict(d, keys) == [k \in DOMAIN d \cap keys |-> d[k]]

EmptyDict == [k \in {} |-> None]

(***************************************************************************)
(* Results of a function: a value returned or an exception raised.         *)
(***************************************************************************)
Returns(val) == [raised |-> "", arg |-> None, value |-> val]
Raises(exc, arg) == [raised |-> exc, arg |-> arg, value |-> None]

\* Local([x \in {v} |-> e]) is e for x = v: v is computed once and named x,
\* as a local variable of the code names a value.
Local(f) == f[CHOOSE x \in DOMAIN f : TRUE]

(***************************************************************************)
(* The inputs: request contexts, volume records, the remote server's       *)
(* initial content.                                                        *)
(***************************************************************************)
\* nova.context.RequestContext: auth_token, is_admin, project_id, user_id
Contexts ==
    [auth_token : {None, PyStr(""), PyStr("tok")},
     is_admin   : BOOLEAN,
     project_id : {None, PyStr("1")},
     user_id    : {PyStr("u1")}]

PlainStamp == "2012-01-01T01:02:03"
FracStamp == "2012-01-01T01:02:03.000004"

\* A record as the cinder server holds it.
Volume(id, name, created, props) ==
    [id |-> PyStr(id), display_name |-> PyStr(name), created_at |-> created,
     checksum |-> PyStr("c0ffee"), properties |-> props]

\* The server's content when the model starts: eight volumes that differ in
\* the properties the visibility check reads and in their timestamps (the
\* last one's is in neither of the formats the service parses).
FirstVolume == Volume("v1", "fakevol-1", PyStr(PlainStamp), [owner_id |-> PyStr("1")])

OtherVolumes ==
    << Volume("v2", "fakevol-2", PyStr(FracStamp), [owner_id |-> PyStr("2"), project_id |-> PyStr("1")]),
       Volume("v3", "fakevol-3", None, [project_id |-> PyStr("1")]),
       Volume("v4", "fakevol-1", PyStr(PlainStamp), EmptyDict),
       Volume("v5", "fakevol-5", PyStr(""), [user_id |-> PyStr("u1")]),
       Volume("v6", "fakevol-6", PyStr(PlainStamp), [owner_id |-> PyInt(1), user_id |-> PyStr("u2")]),
       Volume("v7", "fakevol-7", PyStr(FracStamp), [project_id |-> PyStr("2"), user_id |-> PyStr("u1")]),
       Volume("v8", "fakevol-8", PyStr("yesterday"), [owner_id |-> None, user_id |-> PyStr("u2")]) >>

Catalog == <<FirstVolume>> \o OtherVolumes

CatalogIds == { Catalog[i].id : i \in 1..Len(Catalog) }

\* The ids the calls of the model name: those of the catalog and one more.
VolumeIds == CatalogIds \cup {PyStr("v9")}

\* The ids the writing calls of the model name.  The variable store holds
\* the server's records of these ids; its other records are OtherVolumes
\* throughout.
WriteIds == {PyStr("v1"), PyStr("v9")}

OtherIds == CatalogIds \ WriteIds

\* A server holding st has a record of id; that record.
Has(st, id) == id \in DOMAIN st \/ id \in OtherIds

Record(st, id) ==
    IF id \in DOMAIN st THEN st[id]
    ELSE CHOOSE r \in {OtherVolumes[i] : i \in 1..Len(OtherVolumes)} : r.id = id

\* The records of a server in the order it lists them (by id).
Listing(st) ==
    (IF PyStr("v1") \in DOMAIN st THEN << st[PyStr("v1")] >> ELSE << >>)
    \o OtherVolumes
    \o (IF PyStr("v9") \in DOMAIN st THEN << st[PyStr("v9")] >> ELSE << >>)

(***************************************************************************)
(* cinder.py: the utility functions.                                       *)
(***************************************************************************)
\* _parse_cinder_iso8601_timestamp: the text in one of the two formats
\* becomes a datetime, any other text raises ValueError.
_parse_cinder_iso8601_timestamp(timestamp) ==
    IF timestamp.py # "str" THEN Raises("TypeError", timestamp)
    ELSE IF timestamp = PyStr(FracStamp) THEN Returns(PyDatetime(FracStamp))
    ELSE IF timestamp = PyStr(PlainStamp) THEN Returns(PyDatetime(PlainStamp))
    ELSE Raises("ValueError", timestamp)

TimestampAttrs == <<"created_at", "updated_at", "deleted_at">>

\* _convert_timestamps_to_datetimes: the loop over the three attributes, from
\* the i-th on.
RECURSIVE ConvertTimestampsFrom(_, _)
ConvertTimestampsFrom(volume_meta, i) ==
    IF i > Len(TimestampAttrs) THEN Returns(volume_meta)
    ELSE IF Truthy(Get(volume_meta, TimestampAttrs[i])) THEN
        Local([parsed \in {_parse_cinder_iso8601_timestamp(volume_meta[TimestampAttrs[i]])} |->
            IF parsed.raised # "" THEN parsed
            ELSE ConvertTimestampsFrom(Put(volume_meta, TimestampAttrs[i], parsed.value), i + 1)])
    ELSE ConvertTimestampsFrom(volume_meta, i + 1)

_convert_timestamps_to_datetimes(volume_meta) == ConvertTimestampsFrom(volume_meta, 1)

\* The JSON arrays of the model; a list or a tuple is named by the array
\* that renders it.
JsonTexts == {"[]", "[{\"device\": \"sda\"}]"}

\* json.loads(text): an array gives a list, null gives None; a text that is
\* no JSON is refused.
json_loads(text) ==
    IF text.v \in JsonTexts THEN Returns(PyList(text.v))
    ELSE IF text.v = "null" THEN Returns(None)
    ELSE IF text.v \in {"true", "false"}
        THEN Returns(PyBool(text.v = "true"))
    ELSE Raises("ValueError", text)

\* json.dumps(prop): lists and tuples both give an array, None gives null;
\* a datetime cannot be rendered.
json_dumps(prop) ==
    IF prop.py \in {"list", "tuple"} THEN Returns(PyStr(prop.v))
    ELSE IF prop.py = "None" THEN Returns(PyStr("null"))
    ELSE IF prop.py = "bool" THEN Returns(PyStr(IF Truthy(prop) THEN "true" ELSE "false"))
    ELSE IF prop.py = "int" THEN Returns(PyStr(ToString(prop.v)))
    ELSE Raises("TypeError", prop)

\* The property attr of properties replaced by what the conversion gave.
Converted(properties, attr, done) ==
    IF done.raised # "" THEN done ELSE Returns(Put(properties, attr, done.value))

\* _json_loads: a string property is parsed, anything else is left alone.
_json_loads(properties, attr) ==
    IF properties[attr].py = "str"
        THEN Converted(properties, attr, json_loads(properties[attr]))
    ELSE Returns(properties)

\* _json_dumps: a property that is no string is rendered as JSON.
_json_dumps(properties, attr) ==
    IF properties[attr].py # "str"
        THEN Converted(properties, attr, json_dumps(properties[attr]))
    ELSE Returns(properties)

_CONVERT_PROPS == <<"block_device_mapping", "mappings">>

IsDict(x) == "py" \notin DOMAIN x

Method(method, properties, attr) ==
    IF method = "_json_loads" THEN _json_loads(properties, attr)
    ELSE _json_dumps(properties, attr)

\* _convert: the loop over _CONVERT_PROPS, from the i-th on.
RECURSIVE ConvertFrom(_, _, _)
ConvertFrom(method, properties, i) ==
    IF i > Len(_CONVERT_PROPS) THEN Returns(properties)
    ELSE IF _CONVERT_PROPS[i] \in DOMAIN properties THEN
        Local([done \in {Method(method, properties, _CONVERT_PROPS[i])} |->
            IF done.raised # "" THEN done
            ELSE ConvertFrom(method, done.value, i + 1)])
    ELSE ConvertFrom(method, properties, i + 1)

\* _convert: works on a deep copy, so the caller's metadata is not touched.
_convert(method, metadata) ==
    Local([properties \in {Get(metadata, "properties")} |->
        IF IsDict(properties) /\ DOMAIN properties # {} THEN
            Local([done \in {ConvertFrom(method, properties, 1)} |->
                IF done.raised # "" THEN done
                ELSE Returns(Put(metadata, "properties", done.value))])
        ELSE Returns(metadata)])

_convert_from_string(metadata) == _convert("_json_loads", metadata)

_convert_to_string(metadata) == _convert("_json_dumps", metadata)

volume_ATTRIBUTES ==
    {"id", "size", "display_name", "created_at", "updated_at",
     "deleted_at", "deleted", "status", "atached"}

\* _limit_attributes
_limit_attributes(volume_meta) ==
    [attr \in volume_ATTRIBUTES \cup {"properties"} |->
        IF attr = "properties" THEN GetOr(volume_meta, "properties", EmptyDict)
        ELSE Get(volume_meta, attr)]

\* cindervolumeService._translate_to_cinder
_translate_to_cinder(volume_meta) == _convert_to_string(volume_meta).value

\* cindervolumeService._translate_from_cinder
_translate_from_cinder(volume_meta) ==
    Local([stamped \in {_convert_timestamps_to_datetimes(_limit_attributes(volume_meta))} |->
        IF stamped.raised # "" THEN stamped
        ELSE _convert_from_string(stamped.value)])

\* _translate_from_cinder of what _translate_to_cinder makes of a record
FromCinderOfToCinder(volume_meta) ==
    Local([sent \in {_convert_to_string(volume_meta)} |->
        IF sent.raised # "" THEN sent ELSE _translate_from_cinder(sent.value)])

\* utils.subset_dict(volume_meta, ('id', 'name'))
subset_dict(dict_, keys) == Restrict(dict_, keys)

(***************************************************************************)
(* cinder.py: the translation of the remote server's exceptions.           *)
(***************************************************************************)
\* cinder_exception.Forbidden, NotAuthenticated, MissingCredentialError
DeniedErrors ==
    {"cinder_exception.Forbidden", "cinder_exception.NotAuthenticated",
     "cinder_exception.MissingCredentialError"}

\* _translate_volume_exception
_translate_volume_exception(volume_id, exc) ==
    IF exc.raised \in DeniedErrors THEN Raises("exception.volumeNotAuthorized", volume_id)
    ELSE IF exc.raised = "cinder_exception.NotFound"
        THEN Raises("exception.volumeNotFound", volume_id)
    ELSE IF exc.raised = "cinder_exception.Invalid" THEN Raises("exception.Invalid", exc.arg)
    ELSE exc

\* _translate_plain_exception
_translate_plain_exception(exc) ==
    IF exc.raised \in DeniedErrors THEN Raises("exception.NotAuthorized", exc.arg)
    ELSE IF exc.raised = "cinder_exception.NotFound" THEN Raises("exception.NotFound", exc.arg)
    ELSE IF exc.raised = "cinder_exception.Invalid" THEN Raises("exception.Invalid", exc.arg)
    ELSE exc

(***************************************************************************)
(* cinder.py: the visibility check.                                        *)
(***************************************************************************)
\* the check without its "if context.is_admin" branch
IsVolumeAvailableAdminIgnored(context, volume_meta) ==
    IF Truthy(context.auth_token) THEN TRUE
    ELSE LET properties == volume_meta["properties"] IN
         IF Truthy(context.project_id) /\ "owner_id" \in DOMAIN properties
             THEN str(properties["owner_id"]) = str(context.project_id)
         ELSE IF Truthy(context.project_id) /\ "project_id" \in DOMAIN properties
             THEN str(properties["project_id"]) = str(context.project_id)
         ELSE IF "user_id" \notin DOMAIN properties THEN FALSE
         ELSE str(properties["user_id"]) = str(context.user_id)

\* the check answering True where it meets no user_id
IsVolumeAvailableFailOpen(context, volume_meta) ==
    IF Truthy(context.auth_token) THEN TRUE
    ELSE IF context.is_admin THEN TRUE
    ELSE LET properties == volume_meta["properties"] IN
         IF Truthy(context.project_id) /\ "owner_id" \in DOMAIN properties
             THEN str(properties["owner_id"]) = str(context.project_id)
         ELSE IF Truthy(context.project_id) /\ "project_id" \in DOMAIN properties
             THEN str(properties["project_id"]) = str(context.project_id)
         ELSE IF "user_id" \notin DOMAIN properties THEN TRUE
         ELSE str(properties["user_id"]) = str(context.user_id)

\* cindervolumeService._is_volume_available(context, volume_meta)
_is_volume_available(context, volume_meta) ==
    IF Truthy(context.auth_token) THEN TRUE
    ELSE IF context.is_admin THEN TRUE
    ELSE LET properties == volume_meta["properties"] IN
         IF Truthy(context.project_id) /\ "owner_id" \in DOMAIN properties
             THEN str(properties["owner_id"]) = str(context.project_id)
         ELSE IF Truthy(context.project_id) /\ "project_id" \in DOMAIN properties
             THEN str(properties["project_id"]) = str(context.project_id)
         ELSE IF "user_id" \notin DOMAIN properties THEN FALSE
         ELSE str(properties["user_id"]) = str(context.user_id)

(***************************************************************************)
(* The remote cinder server, as the client library (cinder.client.Client)  *)
(* shows it to the service.  A call reaches the server or fails on the way *)
(* with one of the library's exceptions; plan scripts which: the first     *)
(* plan.k calls of an operation fail with ClientConnectionError, and every *)
(* later one ends as plan.then says ("ok": the server answers).            *)
(***************************************************************************)
ClientConnectionError == "cinder_exception.ClientConnectionError"

ServerFaults ==
    DeniedErrors \cup
    {ClientConnectionError, "cinder_exception.NotFound", "cinder_exception.Invalid",
     "cinder_exception.ServerError"}

Plans == [k : 0..(MaxRetries + 1), then : {"ok"} \cup ServerFaults]

\* The i-th call of an operation the server would answer with answer.
RemoteCall(plan, i, answer) ==
    IF i <= plan.k THEN Raises(ClientConnectionError, None)
    ELSE IF plan.then = "ok" THEN answer
    ELSE Raises(plan.then, None)

\* client.get_volume_meta(volume_id), answered by the server
get_volume_meta(st, volume_id) ==
    IF Has(st, volume_id) THEN Returns(Record(st, volume_id))
    ELSE Raises("cinder_exception.NotFound", volume_id)

\* client.get_volume(volume_id), answered by the server: (metadata, chunks)
get_volume(st, volume_id) ==
    IF Has(st, volume_id)
        THEN Returns([volume_meta |-> Record(st, volume_id),
                      volume_chunks |-> <<"chunk-1", "chunk-2">>])
    ELSE Raises("cinder_exception.NotFound", volume_id)

\* FLAGS: cinder_num_retries and auth_strategy, read when a call is made
Flags == [cinder_num_retries : 0..MaxRetries, auth_strategy : {"keystone", "deprecated"}]

\* The flags of the calls that read cinder_num_retries alone.
RetryFlags == { flags \in Flags : flags.auth_strategy = "keystone" }

(***************************************************************************)
(* cindervolumeService._call_retry.  The log lists what one call does, in  *)
(* order: each client resolved (_get_client), each remote call with its    *)
(* outcome ("ok" or the exception's name), each wait (time.sleep).         *)
(***************************************************************************)
WithLog(r, log) == [raised |-> r.raised, arg |-> r.arg, value |-> r.value, log |-> log]

Event(name, out) == [call |-> name, out |-> out]

GetClient == Event("_get_client", "")

Sleep == Event("time.sleep", "")

\* The remote call name, ended as r says.
Called(name, r) == Event(name, IF r.raised = "" THEN "ok" ELSE r.raised)

\* The loop of _call_retry from its i-th iteration (counted from 0) on, of
\* attempts iterations in all.
RECURSIVE RetryLoop(_, _, _, _, _, _)
RetryLoop(i, attempts, name, plan, answer, log) ==
    IF i >= attempts THEN
        WithLog(Raises("exception.cinderConnectionFailed", PyStr("Maximum attempts reached")), log)
    ELSE Local([out \in {RemoteCall(plan, i + 1, answer)} |->
         Local([tried \in {log \o <<GetClient, Called(name, out)>>} |->
             IF out.raised = ClientConnectionError
                 THEN RetryLoop(i + 1, attempts, name, plan, answer, Append(tried, Sleep))
             ELSE WithLog(out, tried)])])

\* _call_retry with one iteration too many
CallRetryOneMore(flags, name, plan, answer) ==
    RetryLoop(0, flags.cinder_num_retries + 2, name, plan, answer, << >>)

\* _call_retry with one iteration too few
CallRetryOneLess(flags, name, plan, answer) ==
    RetryLoop(0, flags.cinder_num_retries, name, plan, answer, << >>)

\* _call_retry with "except Exception" in the place of
\* "except cinder_exception.ClientConnectionError"
RECURSIVE RetryAnyLoop(_, _, _, _, _, _)
RetryAnyLoop(i, attempts, name, plan, answer, log) ==
    IF i >= attempts THEN
        WithLog(Raises("exception.cinderConnectionFailed", PyStr("Maximum attempts reached")), log)
    ELSE Local([out \in {RemoteCall(plan, i + 1, answer)} |->
         Local([tried \in {log \o <<GetClient, Called(name, out)>>} |->
             IF out.raised # ""
                 THEN RetryAnyLoop(i + 1, attempts, name, plan, answer, Append(tried, Sleep))
             ELSE WithLog(out, tried)])])

CallRetryAnyError(flags, name, plan, answer) ==
    RetryAnyLoop(0, flags.cinder_num_retries + 1, name, plan, answer, << >>)

_call_retry(flags, name, plan, answer) ==
    RetryLoop(0, flags.cinder_num_retries + 1, name, plan, answer, << >>)

(***************************************************************************)
(* The remote listing, client.get_volumes_detailed, and any      *)
(* fetch_func given to _fetch_volumes.  The server lists the records of    *)
(* backing that follow the marker; script says how many each call returns  *)
(* at most (sizes, none once the script is over), whether the server cuts  *)
(* a page to the limit it is given (honors), and which call fails (failAt, *)
(* 0 for none) with which exception (fault).                               *)
(***************************************************************************)
Min(a, b) == IF a <= b THEN a ELSE b

\* The scripts of at most MaxFetch pages, each of 1..MaxPage records.
SizeSeqs == UNION { [1..n -> 1..MaxPage] : n \in 0..MaxFetch }

\* The scripts of a server with a fixed page size.
FixedSizes == { [i \in 1..(Len(Catalog) + 2) |-> p] : p \in 1..MaxPage }

NoFault == [failAt : {0}, fault : {"cinder_exception.ServerError"}]

Faults == [failAt : 1..2, fault : ServerFaults]

\* How many records of backing come before the one that follows marker.
Position(backing, marker) ==
    IF marker = None THEN 0
    ELSE IF \E j \in 1..Len(backing) : Get(backing[j], "id") = marker
        THEN CHOOSE j \in 1..Len(backing) : Get(backing[j], "id") = marker
    ELSE -1

\* The records the server lists under filters: all of them, or those of the
\* name asked for.
Filtered(records, filters) ==
    IF filters = None THEN records
    ELSE SelectSeq(records, LAMBDA r : Get(r, "display_name") = filters["name"])

\* The i-th call of fetch_func.
fetch_func(records, script, i, kwargs) ==
    Local([backing \in {Filtered(records, Get(kwargs, "filters"))} |->
    Local([start \in {Position(backing, Get(kwargs, "marker"))} |->
    Local([size \in {IF i <= Len(script.sizes) THEN script.sizes[i] ELSE 0} |->
    Local([cap \in {IF script.honors /\ Get(kwargs, "limit").py = "int"
                        THEN Min(size, Get(kwargs, "limit").v)
                    ELSE size} |->
        IF script.failAt = i THEN Raises(script.fault, None)
        ELSE IF start < 0 THEN Raises("cinder_exception.Invalid", kwargs.marker)
        ELSE Returns(SubSeq(backing, start + 1, Min(start + cap, Len(backing))))])])])])

(***************************************************************************)
(* cindervolumeService._extract_query_params and _fetch_volumes.           *)
(***************************************************************************)
accepted_params == {"filters", "marker", "limit", "sort_key", "sort_dir"}

_extract_query_params(params) == Restrict(params, accepted_params)

\* What the generator did: the records it yielded, in order; how it ended
\* (raised = "": it returned); the calls of fetch_func it made.
Generated(end, yielded, fetches) ==
    [raised |-> end.raised, arg |-> end.arg, value |-> yielded, fetches |-> fetches]

\* The ids of the records of a page.
Ids(page) == [j \in 1..Len(page) |-> Get(page[j], "id")]

\* "if not volumes: return"
EndOfPages(page) == page = << >>

\* the first record of the page taken for the last
FirstOf(page) == page[1]

\* a record without an id anywhere in the page
LacksIdAnywhere(page) == \E j \in DOMAIN page : "id" \notin DOMAIN page[j]

\* "volumes[-1]['id']" raises KeyError
LacksId(page) == "id" \notin DOMAIN page[Len(page)]

\* "volumes[-1]"
LastOf(page) == page[Len(page)]

\* the limit passed on as it came, the page not subtracted
RemainingLimitStale(limit, page) == limit

\* "kwargs['limit'] - len(volumes)", once kwargs['limit'] is known to be an int
RemainingLimit(limit, page) == PyInt(limit.v - Len(page))

\* the listing going on until the limit is below zero
LimitReachedBelowZero(limit) == limit.v < 0

\* "if kwargs['limit'] <= 0: return"
LimitReached(limit) == limit.v <= 0

\* _fetch_volumes, having yielded the records yielded
\* in the calls fetches so far.
RECURSIVE FetchLoop(_, _, _, _, _)
FetchLoop(backing, script, kwargs, yielded, fetches) ==
    Local([got \in {fetch_func(backing, script, Len(fetches) + 1, kwargs)} |->
    Local([made \in {Append(fetches,
                            [kwargs |-> kwargs,
                             got |-> IF got.raised # "" THEN << >> ELSE Ids(got.value)])} |->
        IF got.raised # "" THEN Generated(_translate_plain_exception(got), yielded, made)
        ELSE IF EndOfPages(got.value) THEN Generated(Returns(None), yielded, made)
        ELSE Local([out \in {yielded \o got.value} |->
             Local([last \in {LastOf(got.value)} |->
                 IF LacksId(got.value)
                     THEN Generated(Raises("exception.volumePaginationFailed", None), out, made)
                 ELSE Local([marked \in {Put(kwargs, "marker", last["id"])} |->
                      IF "limit" \notin DOMAIN marked
                          THEN FetchLoop(backing, script, marked, out, made)
                      ELSE IF marked["limit"].py # "int"
                          THEN Generated(Raises("TypeError", marked["limit"]), out, made)
                      ELSE Local([left \in {RemainingLimit(marked["limit"], got.value)} |->
                           IF LimitReached(left) THEN Generated(Returns(None), out, made)
                           ELSE FetchLoop(backing, script, Put(marked, "limit", left),
                                          out, made)])])])])])])

_fetch_volumes(backing, script, kwargs) == FetchLoop(backing, script, kwargs, << >>, << >>)

(***************************************************************************)
(* cindervolumeService: show and get.                                      *)
(***************************************************************************)
\* show(context, volume_id); called is what _call_retry gave
show(flags, st, plan, context, volume_id) ==
    Local([called \in {_call_retry(flags, "get_volume_meta", plan,
                                    get_volume_meta(st, volume_id))} |->
    Local([result \in {IF called.raised # ""
                           THEN _translate_volume_exception(volume_id, called)
                       ELSE IF ~_is_volume_available(context, called.value)
                           THEN Raises("exception.volumeNotFound", volume_id)
                       ELSE _translate_from_cinder(called.value)} |->
        [raised |-> result.raised, arg |-> result.arg, value |-> result.value,
         log |-> called.log, called |-> called]])])

\* get(context, volume_id, data); written is what data.write received
get(flags, st, plan, context, volume_id) ==
    Local([called \in {_call_retry(flags, "get_volume", plan, get_volume(st, volume_id))} |->
    Local([result \in {IF called.raised # ""
                           THEN _translate_volume_exception(volume_id, called)
                       ELSE _translate_from_cinder(called.value.volume_meta)} |->
        [raised |-> result.raised, arg |-> result.arg, value |-> result.value,
         log |-> called.log, called |-> called,
         written |-> IF called.raised # "" THEN << >> ELSE called.value.volume_chunks]])])

(***************************************************************************)
(* cindervolumeService: index, detail and show_by_name.                    *)
(***************************************************************************)
\* _get_volumes(context, **kwargs), the generator run to its end
_get_volumes(st, script, kwargs) == _fetch_volumes(Listing(st), script, kwargs)

\* The first of based that raised, 0 when none did.
FirstFailing(based) ==
    IF \E j \in 1..Len(based) : based[j].raised # ""
        THEN CHOOSE j \in 1..Len(based) :
                 based[j].raised # "" /\ \A h \in 1..(j - 1) : based[h].raised = ""
    ELSE 0

\* How many of the calls fetches it takes to yield the j-th record.
RECURSIVE FetchesFor(_, _, _)
FetchesFor(fetches, j, f) ==
    IF f > Len(fetches) \/ j <= 0 THEN f - 1
    ELSE FetchesFor(fetches, j - Len(fetches[f].got), f + 1)

\* index(context, **kwargs)
index(st, script, context, params) ==
    Local([g \in {_get_volumes(st, script, _extract_query_params(params))} |->
    Local([seen \in {SelectSeq(g.value, LAMBDA volume_meta :
                         _is_volume_available(context, volume_meta))} |->
        [raised |-> g.raised, arg |-> g.arg,
         value |-> IF g.raised # "" THEN None
                   ELSE [j \in 1..Len(seen) |-> subset_dict(seen[j], {"id", "name"})],
         log |-> <<GetClient>>, fetches |-> g.fetches]])])

\* detail translating every record it is given before it filters
DetailTranslateFirst(st, script, context, params) ==
    Local([g \in {_get_volumes(st, script, _extract_query_params(params))} |->
    Local([based \in {[j \in 1..Len(g.value) |-> _translate_from_cinder(g.value[j])]} |->
    Local([bad \in {FirstFailing(based)} |->
        IF bad > 0 THEN
            [raised |-> based[bad].raised, arg |-> based[bad].arg, value |-> None,
             log |-> <<GetClient>>,
             fetches |-> SubSeq(g.fetches, 1, FetchesFor(g.fetches, bad, 1))]
        ELSE Local([seen \in {SelectSeq(based, LAMBDA base_volume_meta :
                                 _is_volume_available(context, base_volume_meta.value))} |->
             [raised |-> g.raised, arg |-> g.arg,
              value |-> IF g.raised # "" THEN None
                        ELSE [j \in 1..Len(seen) |-> seen[j].value],
              log |-> <<GetClient>>, fetches |-> g.fetches]])])])])

\* detail(context, **kwargs): the generator is consumed record by record, so
\* a record that cannot be translated ends the call before the next page
\* is fetched.
detail(st, script, context, params) ==
    Local([g \in {_get_volumes(st, script, _extract_query_params(params))} |->
    Local([seen \in {SelectSeq(g.value, LAMBDA volume_meta :
                         _is_volume_available(context, volume_meta))} |->
    Local([based \in {[j \in 1..Len(seen) |-> _translate_from_cinder(seen[j])]} |->
    Local([bad \in {FirstFailing(based)} |->
        IF bad > 0 THEN
            [raised |-> based[bad].raised, arg |-> based[bad].arg, value |-> None,
             log |-> <<GetClient>>,
             fetches |-> SubSeq(g.fetches, 1,
                                FetchesFor(g.fetches, Position(g.value, seen[bad]["id"]), 1))]
        ELSE [raised |-> g.raised, arg |-> g.arg,
              value |-> IF g.raised # "" THEN None
                        ELSE [j \in 1..Len(seen) |-> based[j].value],
              log |-> <<GetClient>>, fetches |-> g.fetches]])])])])

\* show_by_name(context, name)
show_by_name(st, script, context, name) ==
    Local([volume_metas \in {detail(st, script, context, [filters |-> [name |-> name]])} |->
        IF volume_metas.raised # "" THEN volume_metas
        ELSE IF volume_metas.value = << >> THEN
            [raised |-> "exception.volumeNotFound", arg |-> name, value |-> None,
             log |-> volume_metas.log, fetches |-> volume_metas.fetches]
        ELSE [raised |-> "", arg |-> None, value |-> volume_metas.value[1],
              log |-> volume_metas.log, fetches |-> volume_metas.fetches]])

(***************************************************************************)
(* The remote cinder server's writing operations, as the client library    *)
(* shows them.  A writing call is made once: outcome says whether it       *)
(* reaches the server ("ok") or fails on the way with an exception of the  *)
(* library, the server's records then being as they were.                  *)
(***************************************************************************)
WriteOutcomes ==
    {"ok", ClientConnectionError, "cinder_exception.NotFound", "cinder_exception.Forbidden"}

\* What a writing call does: how it ends and the records it leaves.
Wrote(result, st) == [raised |-> result.raised, arg |-> result.arg, value |-> result.value,
                      store |-> st]

\* The record the server keeps for metadata it is sent under id; old is the
\* record it replaces, None when there is none.
Stored(id, volume_meta, old) ==
    Volume(id.v,
           IF "display_name" \in DOMAIN volume_meta THEN volume_meta["display_name"].v
           ELSE IF old = None THEN "" ELSE old["display_name"].v,
           IF old = None THEN PyStr(PlainStamp) ELSE old["created_at"],
           IF "properties" \in DOMAIN volume_meta THEN volume_meta["properties"]
           ELSE IF old = None THEN EmptyDict ELSE old["properties"])

\* client.add_volume(volume_meta, data): the server takes the id it is sent
\* or gives the record one of its own.
add_volume(st, outcome, volume_meta) ==
    Local([id \in {GetOr(volume_meta, "id", PyStr("v9"))} |->
        IF outcome # "ok" THEN Wrote(Raises(outcome, None), st)
        ELSE IF Has(st, id) THEN Wrote(Raises("cinder_exception.Duplicate", id), st)
        ELSE Local([new \in {Stored(id, volume_meta, None)} |->
             Wrote(Returns(new),
                   [k \in DOMAIN st \cup {id} |-> IF k = id THEN new ELSE st[k]])])])

\* client.update_volume(volume_id, volume_meta, data)
update_volume(st, outcome, volume_id, volume_meta) ==
    IF outcome # "ok" THEN Wrote(Raises(outcome, None), st)
    ELSE IF volume_id \notin DOMAIN st
        THEN Wrote(Raises("cinder_exception.NotFound", volume_id), st)
    ELSE Local([new \in {Stored(volume_id, volume_meta, st[volume_id])} |->
         Wrote(Returns(new), [st EXCEPT ![volume_id] = new])])

\* client.delete_volume(volume_id)
delete_volume(st, outcome, volume_id) ==
    IF outcome # "ok" THEN Wrote(Raises(outcome, None), st)
    ELSE IF volume_id \notin DOMAIN st
        THEN Wrote(Raises("cinder_exception.NotFound", volume_id), st)
    ELSE Wrote(Returns(None), [k \in DOMAIN st \ {volume_id} |-> st[k]])

(***************************************************************************)
(* cindervolumeService: create, update and delete.                         *)
(***************************************************************************)
\* What a call of the service did: how it ended, the calls it made, the
\* records it left on the server.
Did(result, log, st) == [raised |-> result.raised, arg |-> result.arg,
                         value |-> result.value, log |-> log, store |-> st]

\* create with add_volume called again after a connectivity error
CreateRepeating(st, outcome, context, volume_meta) ==
    Local([added \in {add_volume(st, outcome, _translate_to_cinder(volume_meta))} |->
    Local([log \in {IF added.raised = ClientConnectionError
                        THEN <<GetClient, Called("add_volume", added), Sleep,
                               GetClient, Called("add_volume", added)>>
                    ELSE <<GetClient, Called("add_volume", added)>>} |->
        IF added.raised # "" THEN Did(added, log, added.store)
        ELSE Did(_translate_from_cinder(added.value), log, added.store)])])

\* create(context, volume_meta, data=None)
create(st, outcome, context, volume_meta) ==
    Local([added \in {add_volume(st, outcome, _translate_to_cinder(volume_meta))} |->
    Local([log \in {<<GetClient, Called("add_volume", added)>>} |->
        IF added.raised # "" THEN Did(added, log, added.store)
        ELSE Did(_translate_from_cinder(added.value), log, added.store)])])

\* update(context, volume_id, volume_meta, data=None)
update(flags, st, plan, outcome, context, volume_id, volume_meta) ==
    Local([shown \in {show(flags, st, plan, context, volume_id)} |->
        IF shown.raised # "" THEN Did(shown, shown.log, st)
        ELSE Local([updated \in {update_volume(st, outcome, volume_id,
                                               _translate_to_cinder(volume_meta))} |->
             Local([log \in {shown.log \o <<GetClient, Called("update_volume", updated)>>} |->
                 IF updated.raised # ""
                     THEN Did(_translate_volume_exception(volume_id, updated), log, updated.store)
                 ELSE Did(_translate_from_cinder(updated.value), log, updated.store)])])])

\* "Not the volume owner": the check delete makes of the properties'
\* attr when FLAGS.auth_strategy is 'deprecated'
NotTheOwner(context, properties, attr) ==
    /\ Truthy(context.project_id)
    /\ attr \in DOMAIN properties
    /\ context.project_id # properties[attr]

\* delete without the check of the owner
DeleteUnchecked(flags, st, plan, outcome, context, volume_id) ==
    Local([volume_meta \in {show(flags, st, plan, context, volume_id)} |->
        IF volume_meta.raised # "" THEN Did(volume_meta, volume_meta.log, st)
        ELSE Local([result \in {delete_volume(st, outcome, volume_id)} |->
             Local([log \in {volume_meta.log \o <<GetClient, Called("delete_volume", result)>>} |->
                 IF result.raised = "cinder_exception.NotFound"
                     THEN Did(Raises("exception.volumeNotFound", volume_id), log, result.store)
                 ELSE Did(result, log, result.store)])])])

\* delete after its show with "except cinder_exception.NotFound" left out
DeleteShownUncaught(flags, st, outcome, context, volume_id, volume_meta) ==
    IF /\ flags.auth_strategy = "deprecated"
       /\ \/ NotTheOwner(context, volume_meta.value["properties"], "project_id")
          \/ NotTheOwner(context, volume_meta.value["properties"], "owner_id")
        THEN Did(Raises("exception.NotAuthorized", PyStr("Not the volume owner")),
                 volume_meta.log, st)
    ELSE Local([result \in {delete_volume(st, outcome, volume_id)} |->
         Did(result, volume_meta.log \o <<GetClient, Called("delete_volume", result)>>,
             result.store)])

\* delete(context, volume_id) from the return of its show, which gave
\* volume_meta, on: the check of the owner and the remote delete_volume
DeleteShown(flags, st, outcome, context, volume_id, volume_meta) ==
    IF /\ flags.auth_strategy = "deprecated"
       /\ \/ NotTheOwner(context, volume_meta.value["properties"], "project_id")
          \/ NotTheOwner(context, volume_meta.value["properties"], "owner_id")
        THEN Did(Raises("exception.NotAuthorized", PyStr("Not the volume owner")),
                 volume_meta.log, st)
    ELSE Local([result \in {delete_volume(st, outcome, volume_id)} |->
         Local([log \in {volume_meta.log \o <<GetClient, Called("delete_volume", result)>>} |->
             IF result.raised = "cinder_exception.NotFound"
                 THEN Did(Raises("exception.volumeNotFound", volume_id), log, result.store)
             ELSE Did(result, log, result.store)])])

\* delete(context, volume_id)
delete(flags, st, plan, outcome, context, volume_id) ==
    Local([volume_meta \in {show(flags, st, plan, context, volume_id)} |->
        IF volume_meta.raised # "" THEN Did(volume_meta, volume_meta.log, st)
        ELSE DeleteShown(flags, st, outcome, context, volume_id, volume_meta)])

(***************************************************************************)
(* fake.py: _FakeVolumeService, its dictionary self.volumes given as vols. *)
(***************************************************************************)
fake_uuid_1 == PyStr("11111111-aaaa-bbbb-cccc-1111aaaa3333")

fake_uuid_2 == PyStr("22222222-aaaa-bbbb-cccc-2222aaaa3333")

fake_uuid_3 == PyStr("22222222-aaaa-bbbb-cccc-3333aaaa3333")

\* volume_1, volume_2, volume_3 of __init__, which differ in their id
FakeVolume(id) ==
    [id |-> id, deleted |-> PyBool(FALSE), user_id |-> PyStr("fakeuser"),
     project_id |-> PyStr("fakeproject"), size |-> PyInt(1), status |-> PyStr("active"),
     display_name |-> PyStr("fakevol-1")]

\* self.volumes after __init__: create(None, volume_1), ..., create(None, volume_3)
InitVolumes == [id \in {fake_uuid_1, fake_uuid_2, fake_uuid_3} |-> FakeVolume(id)]

\* What a call of the fake service did: how it ended, self.volumes after it.
FakeDid(result, vols) == [raised |-> result.raised, arg |-> result.arg,
                          value |-> result.value, volumes |-> vols]

\* "not x" for x a dictionary or None
Falsy(x) == IF IsDict(x) THEN DOMAIN x = {} ELSE ~Truthy(x)

\* show(context, volume_id)
_FakeVolumeService_show(vols, volume_id) ==
    Local([volume \in {Get(vols, PyStr(str(volume_id)))} |->
        IF Falsy(volume) THEN Raises("exception.VolumeNotFound", volume_id)
        ELSE Returns(volume)])

\* The attribute of a record that the fake's show_by_name compares with the
\* name asked for.
NameKey == "name"

\* The attribute that holds the name of a record.
DisplayNameKey == "display_name"

\* show_by_name(context, name): the results it can give, one for each
\* record that matches, self.volumes.values() being in no fixed order.
_FakeVolumeService_show_by_name(vols, name) ==
    Local([matching \in {{ k \in DOMAIN vols : Get(vols[k], NameKey) = name }} |->
        IF matching = {} THEN {Raises("exception.VolumeNotFound", name)}
        ELSE { Returns(vols[k]) : k \in matching }])

\* create(context, metadata, data=None); uuid is what utils.gen_uuid() gives
_FakeVolumeService_create(vols, uuid, metadata) ==
    Local([volume_id \in {PyStr(str(GetOr(metadata, "id", uuid)))} |->
    Local([stored \in {Put(metadata, "id", volume_id)} |->
        FakeDid(Returns(stored),
                [k \in DOMAIN vols \cup {volume_id} |->
                    IF k = volume_id THEN stored ELSE vols[k]])])])

\* update(context, volume_id, metadata, data=None)
_FakeVolumeService_update(vols, volume_id, metadata) ==
    IF Falsy(Get(vols, volume_id)) THEN FakeDid(Raises("exception.VolumeNotFound", volume_id), vols)
    ELSE FakeDid(Returns(None), [vols EXCEPT ![volume_id] = metadata])

\* delete with "if not removed: raise" left out
FakeDeleteSilent(vols, volume_id) ==
    FakeDid(Returns(None), [k \in DOMAIN vols \ {volume_id} |-> vols[k]])

\* delete(context, volume_id)
_FakeVolumeService_delete(vols, volume_id) ==
    Local([popped \in {[k \in DOMAIN vols \ {volume_id} |-> vols[k]]} |->
        IF Falsy(Get(vols, volume_id))
            THEN FakeDid(Raises("exception.VolumeNotFound", volume_id), popped)
        ELSE FakeDid(Returns(None), popped)])

(***************************************************************************)
(* The state machine.                                                      *)
(***************************************************************************)
Idle == [op |-> "idle"]

InitStore == [id \in {PyStr("v1")} |-> FirstVolume]

\* No two calls of delete are under way.
NotRunning == [op |-> "none"]

Init ==
    /\ store = InitStore
    /\ volumes = InitVolumes
    /\ ret = Idle
    /\ running = NotRunning

Show ==
    /\ ret = Idle
    /\ \E flags \in RetryFlags, plan \in Plans, context \in Contexts, volume_id \in VolumeIds :
        \E r \in {show(flags, store, plan, context, volume_id)} :
        ret' = [op |-> "show", flags |-> flags, plan |-> plan, context |-> context,
                volume_id |-> volume_id, raised |-> r.raised, arg |-> r.arg,
                value |-> r.value, log |-> r.log, called |-> r.called]
    /\ UNCHANGED <<store, volumes, running>>

GetVolume ==
    /\ ret = Idle
    /\ \E flags \in RetryFlags, plan \in Plans, context \in Contexts, volume_id \in VolumeIds :
        \E r \in {get(flags, store, plan, context, volume_id)} :
        ret' = [op |-> "get", flags |-> flags, plan |-> plan, context |-> context,
                volume_id |-> volume_id, raised |-> r.raised, arg |-> r.arg,
                value |-> r.value, log |-> r.log, called |-> r.called,
                written |-> r.written]
    /\ UNCHANGED <<store, volumes, running>>

\* The keyword arguments of the listings of the model: no limit, limit=None,
\* limit=1..MaxLimit; a sort order, with and without a limit; a filter on
\* the name with limit=2, with and without a sort order.
ListKwargs ==
    { Restrict([limit |-> l], keys) :
        l \in {None} \cup { PyInt(n) : n \in 1..MaxLimit }, keys \in {{}, {"limit"}} }
    \cup { Restrict([sort_key |-> PyStr("created_at"), sort_dir |-> PyStr("desc"),
                     limit |-> PyInt(MaxLimit)], keys) :
            keys \in {{"sort_key", "sort_dir"}, {"sort_key", "sort_dir", "limit"}} }
    \cup { Restrict([sort_key |-> PyStr("created_at"), sort_dir |-> PyStr("desc"),
                     filters |-> [name |-> PyStr("fakevol-1")], limit |-> PyInt(2)],
                    keys) :
            keys \in {{"filters", "limit"}, {"filters", "sort_key", "sort_dir", "limit"}} }

\* The scripts of the backends behind _fetch_volumes: any pages, cut to the
\* limit or not, no call failing.
ListScripts ==
    { [sizes |-> sizes, honors |-> honors, failAt |-> fail.failAt, fault |-> fail.fault] :
        sizes \in SizeSeqs, honors \in BOOLEAN, fail \in NoFault }

\* _fetch_volumes over a scripted backend that serves the catalog
FetchVolumes ==
    /\ ret = Idle
    /\ \E script \in ListScripts, kwargs \in ListKwargs :
        \E g \in {_fetch_volumes(Catalog, script, kwargs)} :
        ret' = [op |-> "_fetch_volumes", script |-> script, kwargs |-> kwargs,
                raised |-> g.raised, arg |-> g.arg, value |-> g.value,
                fetches |-> g.fetches]
    /\ UNCHANGED <<store, volumes, running>>

\* The catalog with the id of its j-th record missing.
WithoutId(j) ==
    [i \in DOMAIN Catalog |->
        IF i = j THEN Restrict(Catalog[i], DOMAIN Catalog[i] \ {"id"}) ELSE Catalog[i]]

\* The places of the record without id in the listings of the model.
Idless == {2, 3, 6}

\* _fetch_volumes over a scripted backend that serves the catalog with one
\* record that has no id
FetchWithoutId ==
    /\ ret = Idle
    /\ \E j \in Idless, script \in ListScripts, kwargs \in ListKwargs :
        \E g \in {_fetch_volumes(WithoutId(j), script, kwargs)} :
        ret' = [op |-> "_fetch_volumes, a record without id", idless |-> j,
                script |-> script, kwargs |-> kwargs,
                raised |-> g.raised, arg |-> g.arg, value |-> g.value,
                fetches |-> g.fetches]
    /\ UNCHANGED <<store, volumes, running>>

\* The keyword arguments of index and detail in the model: those of a
\* listing, with or without an argument that is not accepted.
ListParams == ListKwargs \cup {[bogus |-> PyStr("x")], [bogus |-> PyStr("x"), limit |-> PyInt(MaxLimit)]}

\* The scripts of the server behind index, detail and show_by_name: a fixed
\* page size, pages cut to the limit, at most one of the first two calls
\* failing.
ServerScripts ==
    { [sizes |-> sizes, honors |-> TRUE, failAt |-> fail.failAt, fault |-> fail.fault] :
        sizes \in FixedSizes, fail \in NoFault \cup Faults }

Names == {PyStr("fakevol-1"), PyStr("fakevol-2"), PyStr("fakevol-0")}

Index ==
    /\ ret = Idle
    /\ \E script \in ServerScripts, context \in Contexts, params \in ListParams :
        \E r \in {index(store, script, context, params)} :
        ret' = [op |-> "index", script |-> script, context |-> context, params |-> params,
                raised |-> r.raised, arg |-> r.arg, value |-> r.value, log |-> r.log,
                fetches |-> r.fetches]
    /\ UNCHANGED <<store, volumes, running>>

Detail ==
    /\ ret = Idle
    /\ \E script \in ServerScripts, context \in Contexts, params \in ListParams :
        \E r \in {detail(store, script, context, params)} :
        ret' = [op |-> "detail", script |-> script, context |-> context, params |-> params,
                raised |-> r.raised, arg |-> r.arg, value |-> r.value, log |-> r.log,
                fetches |-> r.fetches]
    /\ UNCHANGED <<store, volumes, running>>

ShowByName ==
    /\ ret = Idle
    /\ \E script \in ServerScripts, context \in Contexts, name \in Names :
        \E r \in {show_by_name(store, script, context, name)} :
        ret' = [op |-> "show_by_name", script |-> script, context |-> context, name |-> name,
                raised |-> r.raised, arg |-> r.arg, value |-> r.value, log |-> r.log,
                fetches |-> r.fetches]
    /\ UNCHANGED <<store, volumes, running>>

\* An entry "host:port" of FLAGS.cinder_api_servers, as split(':') parts it.
Endpoint(host, port_str) == [host |-> host, port_str |-> port_str]

\* The entries of the model.
Endpoints == {Endpoint("cinder1", "9292"), Endpoint("cinder2", "9292"), Endpoint("cinder1", "80")}

\* int(port_str)
int(port_str) == IF port_str = "9292" THEN 9292 ELSE 80

\* The values of FLAGS.cinder_api_servers: no entry, or up to MaxPool.
Pools == UNION { [1..n -> Endpoints] : n \in 0..MaxPool }

\* pick_cinder_api_server(); choice is the index random.choice draws, which
\* for an empty list is out of range.
pick_cinder_api_server(cinder_api_servers, choice) ==
    IF choice \notin DOMAIN cinder_api_servers
        THEN Raises("IndexError", None)
    ELSE Returns([host |-> cinder_api_servers[choice].host,
                  port |-> int(cinder_api_servers[choice].port_str)])

\* The indices random.choice can draw from a list: any of the list, and for
\* the empty list the one index it tries.
Choices(cinder_api_servers) ==
    IF cinder_api_servers = << >> THEN {1} ELSE DOMAIN cinder_api_servers

PickCinderApiServer ==
    /\ ret = Idle
    /\ \E cinder_api_servers \in Pools :
        \E choice \in Choices(cinder_api_servers) :
        \E r \in {pick_cinder_api_server(cinder_api_servers, choice)} :
        ret' = [op |-> "pick_cinder_api_server", cinder_api_servers |-> cinder_api_servers,
                raised |-> r.raised, arg |-> r.arg, value |-> r.value]
    /\ UNCHANGED <<store, volumes, running>>

\* The values of block_device_mapping and mappings that are no strings: the
\* empty list, a list of one device, the tuple of the same device.
Structured ==
    {PyList("[]"), PyList("[{\"device\": \"sda\"}]"), PyTuple("[{\"device\": \"sda\"}]")}

\* The properties of the records translated to the remote form and back.
TranslatedProperties ==
    { Restrict([block_device_mapping |-> b, mappings |-> mp,
                owner_id |-> PyStr("1"), project_id |-> PyStr("2")], keys) :
        b \in Structured \cup {PyStr("[]")}, mp \in Structured,
        keys \in {{"block_device_mapping", "owner_id"},
                  {"block_device_mapping", "mappings", "owner_id", "project_id"},
                  {"mappings"}} }

\* The records translated to the remote form and back: created_at absent,
\* as the server sends it, or as show returns it.
TranslatedRecords ==
    { Restrict([id |-> PyStr("v1"), display_name |-> PyStr("fakevol-1"),
                created_at |-> created, properties |-> properties], keys) :
        created \in {PyStr(PlainStamp), PyDatetime(PlainStamp)},
        properties \in TranslatedProperties,
        keys \in {{"id", "display_name", "properties"},
                  {"id", "display_name", "created_at", "properties"}} }

\* _translate_to_cinder, then _translate_from_cinder of its result
Translate ==
    /\ ret = Idle
    /\ \E volume_meta \in TranslatedRecords :
        \E r \in {FromCinderOfToCinder(volume_meta)} :
        ret' = [op |-> "translate", volume_meta |-> volume_meta,
                raised |-> r.raised, arg |-> r.arg, value |-> r.value]
    /\ UNCHANGED <<store, volumes, running>>

\* The caller takes the result; the service is ready for the next call.
Return ==
    /\ ret # Idle
    /\ ret' = Idle
    /\ UNCHANGED <<store, volumes, running>>

Next ==
    \/ Show \/ GetVolume \/ FetchVolumes \/ FetchWithoutId \/ Index \/ Detail \/ ShowByName
    \/ Translate \/ PickCinderApiServer
    \/ Return

Spec == Init /\ [][Next]_vars

(***************************************************************************)
(* The writing calls of the two services.                                  *)
(***************************************************************************)
\* The metadata the writing calls of the model pass: with an id and
\* without one.
Metadatas ==
    { [id |-> PyStr("v1"), display_name |-> PyStr("fakevol-1"),
       properties |-> [owner_id |-> PyStr("1")]],
      [display_name |-> PyStr("fakevol-2"), properties |-> [project_id |-> PyStr("2")]] }

\* The contexts of the writing calls: those without an auth token.
Callers == { context \in Contexts : context.auth_token = None }

\* FLAGS during the writing calls: either auth strategy.
WriteFlags == { flags \in Flags : flags.cinder_num_retries = MaxRetries }

\* How the lookups of update and delete go: the server answers at once,
\* refuses, answers the second attempt, or cannot be reached in any attempt.
LookupPlans ==
    { plan \in Plans : \/ plan.k = 0 /\ plan.then \in {"ok", "cinder_exception.Forbidden"}
                       \/ plan.k = 1 /\ plan.then = "ok"
                       \/ plan.k = MaxRetries + 1 /\ plan.then = "ok" }

Create ==
    /\ ret = Idle
    /\ \E outcome \in WriteOutcomes, context \in Callers, volume_meta \in Metadatas :
        \E r \in {create(store, outcome, context, volume_meta)} :
        /\ ret' = [op |-> "create", outcome |-> outcome, context |-> context,
                   volume_meta |-> volume_meta, raised |-> r.raised, arg |-> r.arg,
                   value |-> r.value, log |-> r.log]
        /\ store' = r.store
    /\ UNCHANGED <<volumes, running>>

Update ==
    /\ ret = Idle
    /\ \E flags \in WriteFlags, plan \in LookupPlans, outcome \in WriteOutcomes,
          context \in Callers, volume_id \in WriteIds, volume_meta \in Metadatas :
        \E r \in {update(flags, store, plan, outcome, context, volume_id, volume_meta)} :
        /\ flags.auth_strategy = "keystone"
        /\ ret' = [op |-> "update", flags |-> flags, plan |-> plan, outcome |-> outcome,
                   context |-> context, volume_id |-> volume_id, volume_meta |-> volume_meta,
                   raised |-> r.raised, arg |-> r.arg, value |-> r.value, log |-> r.log]
        /\ store' = r.store
    /\ UNCHANGED <<volumes, running>>

Delete ==
    /\ ret = Idle
    /\ \E flags \in WriteFlags, plan \in LookupPlans, outcome \in WriteOutcomes,
          context \in Callers, volume_id \in WriteIds :
        \E r \in {delete(flags, store, plan, outcome, context, volume_id)} :
        /\ ret' = [op |-> "delete", flags |-> flags, plan |-> plan, outcome |-> outcome,
                   context |-> context, volume_id |-> volume_id,
                   raised |-> r.raised, arg |-> r.arg, value |-> r.value, log |-> r.log]
        /\ store' = r.store
    /\ UNCHANGED <<volumes, running>>

\* The ids the calls of the fake service name, and what utils.gen_uuid()
\* gives.
FakeIds == {fake_uuid_1, PyStr("v1")}

GenUuids == {PyStr("uuid-1")}

\* The metadata the fake's create is given: those of the writing calls, and
\* one that carries both a name and a display_name.
FakeMetadatas ==
    Metadatas \cup {[name |-> PyStr("fakevol-0"), display_name |-> PyStr("fakevol-0")]}

FakeCreate ==
    /\ ret = Idle
    /\ \E uuid \in GenUuids, metadata \in FakeMetadatas :
        \E r \in {_FakeVolumeService_create(volumes, uuid, metadata)} :
        /\ ret' = [op |-> "fake.create", metadata |-> metadata, raised |-> r.raised,
                   arg |-> r.arg, value |-> r.value]
        /\ volumes' = r.volumes
    /\ UNCHANGED <<store, running>>

FakeUpdate ==
    /\ ret = Idle
    /\ \E volume_id \in FakeIds, metadata \in Metadatas :
        \E r \in {_FakeVolumeService_update(volumes, volume_id, metadata)} :
        /\ ret' = [op |-> "fake.update", volume_id |-> volume_id, metadata |-> metadata,
                   raised |-> r.raised, arg |-> r.arg, value |-> r.value]
        /\ volumes' = r.volumes
    /\ UNCHANGED <<store, running>>

FakeDelete ==
    /\ ret = Idle
    /\ \E volume_id \in FakeIds \cup GenUuids :
        \E r \in {_FakeVolumeService_delete(volumes, volume_id)} :
        /\ ret' = [op |-> "fake.delete", volume_id |-> volume_id,
                   raised |-> r.raised, arg |-> r.arg, value |-> r.value]
        /\ volumes' = r.volumes
    /\ UNCHANGED <<store, running>>

FakeShow ==
    /\ ret = Idle
    /\ \E volume_id \in FakeIds \cup GenUuids :
        \E r \in {_FakeVolumeService_show(volumes, volume_id)} :
        ret' = [op |-> "fake.show", volume_id |-> volume_id,
                raised |-> r.raised, arg |-> r.arg, value |-> r.value]
    /\ UNCHANGED <<store, volumes, running>>

FakeShowByName ==
    /\ ret = Idle
    /\ \E name \in Names :
        \E r \in _FakeVolumeService_show_by_name(volumes, name) :
        ret' = [op |-> "fake.show_by_name", name |-> name,
                raised |-> r.raised, arg |-> r.arg, value |-> r.value]
    /\ UNCHANGED <<store, volumes, running>>

NextWrites ==
    \/ Create \/ Update \/ Delete
    \/ FakeCreate \/ FakeUpdate \/ FakeDelete \/ FakeShow \/ FakeShowByName
    \/ Return

SpecWrites == Init /\ [][NextWrites]_vars

(***************************************************************************)
(* What the claims speak of.                                               *)
(***************************************************************************)
\* The number of remote calls a log holds.
Attempts(log) == Cardinality({i \in DOMAIN log : log[i] \notin {GetClient, Sleep}})

Sleeps(log) == Cardinality({i \in DOMAIN log : log[i] = Sleep})

\* ret is the result of a call that went through _call_retry.
Retried == ret.op \in {"show", "get"}

\* What the server answers to the remote operation of the call in ret.
Answer ==
    IF ret.op = "get" THEN get_volume(store, ret.volume_id)
    ELSE get_volume_meta(store, ret.volume_id)

\* What the i-th remote call of the call in ret met.
Met(i) == RemoteCall(ret.plan, i, Answer)

(***************************************************************************)
(* Two calls of delete for one id under way at once, each by a caller of   *)
(* its own, against a server that answers every call.  A call is two       *)
(* steps, one for each remote call it makes: its show (get_volume_meta),   *)
(* then the check of the owner with delete_volume; the server serves one   *)
(* remote call at a time.                                                  *)
(***************************************************************************)
Procs == {1, 2}

\* The records that the two calls find stored under the id they delete.
DeletedRecords ==
    { Volume("v1", "fakevol-1", PyStr(PlainStamp), properties) :
        properties \in {[owner_id |-> PyStr("1")], [project_id |-> PyStr("2")],
                        [owner_id |-> PyStr("2"), project_id |-> PyStr("1")]} }

InitDeletes ==
    /\ store \in { [id \in {PyStr("v1")} |-> record] : record \in DeletedRecords }
    /\ volumes = InitVolumes
    /\ ret = Idle
    /\ running = NotRunning

\* The server answers the lookup in its first attempt.
Answered == [k |-> 0, then |-> "ok"]

\* Where a call of delete is: about to make the remote call pc ("done" when
\* it has ended), with what its last step gave.
Step(pc, context, r) ==
    [pc |-> pc, context |-> context, raised |-> r.raised, arg |-> r.arg,
     value |-> r.value, log |-> r.log]

\* Both callers call delete(context, 'v1').
BeginDeletes ==
    /\ running = NotRunning
    /\ \E flags \in WriteFlags, contexts \in [Procs -> Callers] :
        running' = [op |-> "delete", flags |-> flags, volume_id |-> PyStr("v1"),
                    record |-> store[PyStr("v1")],
                    calls |-> [p \in Procs |->
                                Step("show", contexts[p], WithLog(Returns(None), << >>))]]
    /\ UNCHANGED <<store, volumes, ret>>

\* "volume_meta = self.show(context, volume_id)" of the call p
DeleteShow(p) ==
    /\ running # NotRunning
    /\ running.calls[p].pc = "show"
    /\ \E r \in {show(running.flags, store, Answered, running.calls[p].context,
                       running.volume_id)} :
        running' = [running EXCEPT !.calls[p] =
                        Step(IF r.raised # "" THEN "done" ELSE "delete_volume",
                             running.calls[p].context, r)]
    /\ UNCHANGED <<store, volumes, ret>>

\* The rest of the call p: the check of the owner and delete_volume
DeleteVolume(p) ==
    /\ running # NotRunning
    /\ running.calls[p].pc = "delete_volume"
    /\ \E r \in {DeleteShown(running.flags, store, "ok", running.calls[p].context,
                              running.volume_id, running.calls[p])} :
        /\ running' = [running EXCEPT !.calls[p] = Step("done", running.calls[p].context, r)]
        /\ store' = r.store
    /\ UNCHANGED <<volumes, ret>>

NextDeletes == BeginDeletes \/ \E p \in Procs : DeleteShow(p) \/ DeleteVolume(p)

SpecDeletes == InitDeletes /\ [][NextDeletes]_vars

(***************************************************************************)
(* C1: when every attempt of the remote operation fails with a             *)
(* connectivity error, _call_retry (under show and get) raises             *)
(* cinderConnectionFailed after exactly cinder_num_retries + 1 attempts.   *)
(***************************************************************************)
C1_ExhaustedAfterAllAttempts ==
    (/\ Retried
     /\ \A i \in 1..(ret.flags.cinder_num_retries + 1) : Met(i).raised = ClientConnectionError)
    => /\ ret.called.raised = "exception.cinderConnectionFailed"
       /\ ret.raised = "exception.cinderConnectionFailed"
       /\ Attempts(ret.log) = ret.flags.cinder_num_retries + 1

C1_Witness ==
    /\ ret.op = "show"
    /\ ret.flags.cinder_num_retries = MaxRetries
    /\ \A i \in 1..(MaxRetries + 1) : Met(i).raised = ClientConnectionError
    /\ ret.raised = "exception.cinderConnectionFailed"
    /\ Attempts(ret.log) = MaxRetries + 1

(***************************************************************************)
(* C2: when the first k <= cinder_num_retries attempts fail with a         *)
(* connectivity error and attempt k+1 succeeds, _call_retry returns the    *)
(* result of that attempt, after exactly k+1 attempts, the successful one  *)
(* being the last thing it did.                                            *)
(***************************************************************************)
C2_SucceedsAfterKFailures ==
    (/\ Retried
     /\ ret.plan.k <= ret.flags.cinder_num_retries
     /\ Met(ret.plan.k + 1).raised = "")
    => /\ ret.called.raised = ""
       /\ ret.called.value = Answer.value
       /\ Attempts(ret.log) = ret.plan.k + 1
       /\ Sleeps(ret.log) = ret.plan.k
       /\ ret.log[Len(ret.log)].out = "ok"
       /\ \A i \in 1..(Len(ret.log) - 1) : ret.log[i].out # "ok"

C2_Witness ==
    /\ ret.op = "get"
    /\ ret.plan.k = MaxRetries
    /\ ret.flags.cinder_num_retries = MaxRetries
    /\ ret.called.raised = ""
    /\ ret.called.value = Answer.value
    /\ Attempts(ret.log) = MaxRetries + 1

(***************************************************************************)
(* C3: a failure of attempt k+1 that is no connectivity error leaves       *)
(* _call_retry at once: the same exception, k+1 attempts, no wait after it.*)
(***************************************************************************)
C3_OtherFailureNotRetried ==
    (/\ Retried
     /\ ret.plan.k <= ret.flags.cinder_num_retries
     /\ Met(ret.plan.k + 1).raised \notin {"", ClientConnectionError})
    => /\ ret.called.raised = Met(ret.plan.k + 1).raised
       /\ ret.called.arg = Met(ret.plan.k + 1).arg
       /\ Attempts(ret.log) = ret.plan.k + 1
       /\ Sleeps(ret.log) = ret.plan.k
       /\ ret.log[Len(ret.log)].out = Met(ret.plan.k + 1).raised

C3_Witness ==
    /\ ret.op = "show"
    /\ ret.plan.k = 1
    /\ ret.flags.cinder_num_retries = MaxRetries
    /\ ret.plan.then = "cinder_exception.Forbidden"
    /\ ret.called.raised = "cinder_exception.Forbidden"
    /\ Attempts(ret.log) = 2
    /\ ret.log[Len(ret.log)].out = "cinder_exception.Forbidden"

(***************************************************************************)
(* C4 and C5: _fetch_volumes.                                              *)
(***************************************************************************)
Listed == ret.op = "_fetch_volumes"

\* The limit the caller supplied is the integer ret.kwargs["limit"].v.
LimitSupplied == "limit" \in DOMAIN ret.kwargs /\ ret.kwargs["limit"].py = "int"

\* The script of a backend that holds eight records and serves them in
\* pages of 3, 3, 2 and 0 records.
Pages3320 == ret.script.sizes = <<3, 3, 2>>

\* Every page the backend returned held at most as many records as the
\* limit passed to the call that returned it.
PagesWithinLimit ==
    \A i \in DOMAIN ret.fetches :
        Len(ret.fetches[i].got) <= ret.fetches[i].kwargs["limit"].v

(***************************************************************************)
(* C4 as claimed: with a limit L supplied, _fetch_volumes yields at most L *)
(* records whatever pages the backend returns, and exactly 5 for pages of  *)
(* 3, 3, 2, 0 records and limit=5.                                         *)
(***************************************************************************)
C4_Original ==
    (Listed /\ LimitSupplied)
    => /\ Len(ret.value) <= ret.kwargs["limit"].v
       /\ (Pages3320 /\ ret.kwargs["limit"].v = 5) => Len(ret.value) = 5

(***************************************************************************)
(* C4 as amended: with a limit L supplied, _fetch_volumes yields at most L *)
(* records provided no page holds more records than the limit passed to    *)
(* the call that returned it; a backend that cuts its pages of 3, 3, 2     *)
(* records to that limit yields exactly 5 records for limit=5, in 2 calls. *)
(***************************************************************************)
C4_WithinLimitWhenPagesAre ==
    (Listed /\ LimitSupplied /\ PagesWithinLimit)
    => /\ Len(ret.value) <= ret.kwargs["limit"].v
       /\ (Pages3320 /\ ret.script.honors /\ ret.kwargs["limit"].v = 5)
            => (Len(ret.value) = 5 /\ Len(ret.fetches) = 2 /\ ret.raised = "")

C4_Witness ==
    /\ Listed /\ LimitSupplied /\ PagesWithinLimit
    /\ Pages3320 /\ ret.script.honors /\ ret.kwargs["limit"].v = 5
    /\ Len(ret.value) = 5
    /\ Len(ret.fetches) = 2

RECURSIVE Sum(_)
Sum(sizes) == IF sizes = << >> THEN 0 ELSE Head(sizes) + Sum(Tail(sizes))

(***************************************************************************)
(* C5 as claimed: with limit=None, _fetch_volumes yields the pages up to   *)
(* the first empty one, in order, and ends without an error; pages of 3,   *)
(* 3, 2, 0 records give 8 records in 4 calls.                              *)
(***************************************************************************)
C5_Original ==
    (Listed /\ Get(ret.kwargs, "limit") = None)
    => /\ ret.raised = ""
       /\ ret.value = SubSeq(Catalog, 1, Min(Sum(ret.script.sizes), Len(Catalog)))
       /\ Pages3320 => (Len(ret.value) = 8 /\ Len(ret.fetches) = 4)

(***************************************************************************)
(* C6 to C9: the visibility check and the reads it guards.                 *)
(***************************************************************************)
\* The context carries a non-empty auth token or is admin.
Privileged(context) == Truthy(context.auth_token) \/ context.is_admin

\* properties holds key, and its value reads as the text of val.
PropertyIs(properties, key, val) ==
    key \in DOMAIN properties /\ str(properties[key]) = str(val)

\* ret is the result of a show to which the server answered with a record.
Shown == ret.op = "show" /\ ret.called.raised = ""

\* The properties of that record.
ShownProperties == ret.called.value["properties"]

\* show took the record for visible to the context.
ShownVisible == ret.raised # "exception.volumeNotFound"

\* The ids of the records a read returned to its caller.
ReturnedIds ==
    IF ret.raised # "" THEN << >>
    ELSE IF ret.op \in {"index", "detail"} THEN Ids(ret.value)
    ELSE IF ret.op \in {"show", "get", "show_by_name"} THEN << ret.value["id"] >>
    ELSE << >>

\* The properties the server holds for id.
PropertiesOf(id) == Record(store, id)["properties"]

(***************************************************************************)
(* C6 as claimed: a record is visible whenever the context carries a       *)
(* non-empty auth token, or is admin, or properties.owner_id equals its    *)
(* tenant id, or properties.project_id equals its tenant id, each of the   *)
(* four on its own.                                                        *)
(***************************************************************************)
C6_Original ==
    Shown =>
        ((\/ Truthy(ret.context.auth_token)
          \/ ret.context.is_admin
          \/ PropertyIs(ShownProperties, "owner_id", ret.context.project_id)
          \/ PropertyIs(ShownProperties, "project_id", ret.context.project_id))
         => ShownVisible)

(***************************************************************************)
(* C6 as amended: a record is visible whenever the context carries a       *)
(* non-empty auth token, or is admin, or has a non-empty tenant id that    *)
(* properties.owner_id equals, or has a non-empty tenant id that           *)
(* properties.project_id equals while properties holds no owner_id.        *)
(***************************************************************************)
C6_SufficientConditions ==
    Shown =>
        ((\/ Truthy(ret.context.auth_token)
          \/ ret.context.is_admin
          \/ /\ Truthy(ret.context.project_id)
             /\ PropertyIs(ShownProperties, "owner_id", ret.context.project_id)
          \/ /\ Truthy(ret.context.project_id)
             /\ "owner_id" \notin DOMAIN ShownProperties
             /\ PropertyIs(ShownProperties, "project_id", ret.context.project_id))
         => ShownVisible)

C6_Witness ==
    /\ Shown
    /\ ~Privileged(ret.context)
    /\ ret.context.project_id = PyStr("1")
    /\ ShownProperties = [project_id |-> PyStr("1")]
    /\ ret.raised = ""
    /\ ret.value["id"] = PyStr("v3")

(***************************************************************************)
(* C7 as claimed: index, detail and show return to a context that is not   *)
(* admin and carries no auth token only records whose properties.owner_id  *)
(* or properties.project_id equals its tenant id.                          *)
(***************************************************************************)
C7_Original ==
    (ret.op \in {"index", "detail", "show"} /\ ~Privileged(ret.context))
    => \A j \in DOMAIN ReturnedIds :
           \/ PropertyIs(PropertiesOf(ReturnedIds[j]), "owner_id", ret.context.project_id)
           \/ PropertyIs(PropertiesOf(ReturnedIds[j]), "project_id", ret.context.project_id)

(***************************************************************************)
(* C7 as amended: index, detail and show return to a context that is not   *)
(* admin and carries no auth token only records whose properties.owner_id  *)
(* or properties.project_id equals its tenant id or whose                  *)
(* properties.user_id equals its user id.                                  *)
(***************************************************************************)
C7_OnlyOwnRecords ==
    (ret.op \in {"index", "detail", "show"} /\ ~Privileged(ret.context))
    => \A j \in DOMAIN ReturnedIds :
           \/ PropertyIs(PropertiesOf(ReturnedIds[j]), "owner_id", ret.context.project_id)
           \/ PropertyIs(PropertiesOf(ReturnedIds[j]), "project_id", ret.context.project_id)
           \/ PropertyIs(PropertiesOf(ReturnedIds[j]), "user_id", ret.context.user_id)

C7_Witness ==
    /\ ret.op = "index"
    /\ ~Privileged(ret.context)
    /\ ret.context.project_id = PyStr("1")
    /\ ret.raised = ""
    /\ ReturnedIds = << PyStr("v1"), PyStr("v3"), PyStr("v5"), PyStr("v6") >>

(***************************************************************************)
(* C8 as claimed: no read of the facade (index, detail, show,              *)
(* show_by_name, get) returns the metadata of a record to a context for    *)
(* which _is_volume_available says not visible.                            *)
(***************************************************************************)
C8_Original ==
    (ret.op \in {"index", "detail", "show", "show_by_name", "get"})
    => \A j \in DOMAIN ReturnedIds :
           _is_volume_available(ret.context, Record(store, ReturnedIds[j]))

\* The ids of the records the calls fetches returned, in order.
RECURSIVE Fetched(_)
Fetched(fetches) ==
    IF fetches = << >> THEN << >> ELSE Head(fetches).got \o Fetched(Tail(fetches))

\* The server's record of id is visible to the context of ret.
VisibleId(id) == _is_volume_available(ret.context, Record(store, id))

\* Why index and detail may raise: a call to the server failed, the limit
\* given was None, or (detail) a visible record could not be translated.
ListingFailure ==
    \/ /\ ret.script.failAt \in 1..Len(ret.fetches)
       /\ ret.raised = _translate_plain_exception(Raises(ret.script.fault, None)).raised
    \/ /\ "limit" \in DOMAIN ret.params /\ ret.params["limit"] = None
       /\ ret.raised = "TypeError"
    \/ /\ ret.op = "detail"
       /\ ret.raised = "ValueError"
       /\ \E j \in DOMAIN Fetched(ret.fetches) :
              /\ VisibleId(Fetched(ret.fetches)[j])
              /\ _translate_from_cinder(Record(store, Fetched(ret.fetches)[j])).raised = "ValueError"

(***************************************************************************)
(* C9: to a context that is not admin and has no auth token, a record      *)
(* with none of owner_id, project_id, user_id in its properties is not     *)
(* visible; index and detail return the visible ones of the records the    *)
(* server listed, in the server's order, and raise only for a reason that  *)
(* is no record's being not visible.                                       *)
(***************************************************************************)
C9_FailClosedAndDropped ==
    /\ (/\ Shown
        /\ ~Privileged(ret.context)
        /\ DOMAIN ShownProperties \cap {"owner_id", "project_id", "user_id"} = {})
       => ret.raised = "exception.volumeNotFound"
    /\ ret.op \in {"index", "detail"}
       => /\ ret.raised = "" => ReturnedIds = SelectSeq(Fetched(ret.fetches), VisibleId)
          /\ ret.raised # "" => ListingFailure

C9_Witness ==
    /\ ret.op = "detail"
    /\ ~Privileged(ret.context)
    /\ ret.context.project_id = PyStr("1")
    /\ ret.raised = ""
    /\ Fetched(ret.fetches) = Ids(Catalog)
    /\ ReturnedIds = << PyStr("v1"), PyStr("v3"), PyStr("v5"), PyStr("v6") >>

(***************************************************************************)
(* C10: delete of an id that is not stored.                                *)
(***************************************************************************)
\* The server answers the lookup delete starts with: an attempt within the
\* retry budget reaches it.
LookupAnswered(r) == r.plan.k <= r.flags.cinder_num_retries /\ r.plan.then = "ok"

(***************************************************************************)
(* C10: whatever creates, updates and deletes came before, a delete of an  *)
(* id that is not stored changes no stored record and raises the           *)
(* service's not-found exception: volumeNotFound in the cinder-backed      *)
(* service, once the server answers its lookup, and VolumeNotFound in the  *)
(* fake service.  A second delete of an id just deleted is such a delete.  *)
(***************************************************************************)
C10_DeleteOfAbsentId ==
    [][/\ (ret.op = "idle" /\ ret'.op = "delete" /\ ~Has(store, ret'.volume_id))
          => /\ store' = store
             /\ LookupAnswered(ret') => ret'.raised = "exception.volumeNotFound"
       /\ (ret.op = "idle" /\ ret'.op = "fake.delete" /\ ret'.volume_id \notin DOMAIN volumes)
          => /\ volumes' = volumes
             /\ ret'.raised = "exception.VolumeNotFound"]_vars

\* The first volume is stored when the services start, so a delete that
\* finds it absent follows a delete that removed it.
C10_Witness ==
    /\ ret.op = "delete"
    /\ ret.volume_id = PyStr("v1")
    /\ LookupAnswered(ret)
    /\ ~Has(store, PyStr("v1"))
    /\ ret.raised = "exception.volumeNotFound"
    /\ fake_uuid_1 \notin DOMAIN volumes

(***************************************************************************)
(* C11: delete when FLAGS.auth_strategy is 'deprecated'.                   *)
(***************************************************************************)
\* properties holds attr with a value that is not the tenant id of context.
Differs(context, properties, attr) ==
    /\ Truthy(context.project_id)
    /\ attr \in DOMAIN properties
    /\ str(properties[attr]) # str(context.project_id)

(***************************************************************************)
(* C11 as claimed: under the deprecated auth strategy, a delete by a       *)
(* caller whose tenant id differs from the project_id or the owner_id in   *)
(* the properties of the stored record raises NotAuthorized, and not       *)
(* volumeNotFound.                                                         *)
(***************************************************************************)
C11_Original ==
    [][(/\ ret.op = "idle"
        /\ ret'.op = "delete"
        /\ ret'.flags.auth_strategy = "deprecated"
        /\ LookupAnswered(ret')
        /\ Has(store, ret'.volume_id)
        /\ \/ Differs(ret'.context, Record(store, ret'.volume_id)["properties"], "project_id")
           \/ Differs(ret'.context, Record(store, ret'.volume_id)["properties"], "owner_id"))
       => ret'.raised = "exception.NotAuthorized"]_vars

(***************************************************************************)
(* C12 and C13: the exceptions of the remote service, as the caller of the *)
(* facade sees them.                                                       *)
(***************************************************************************)
\* The public operations of the facade that reach the remote service.
FacadeOps == {"index", "detail", "show", "get", "create", "update", "delete"}

\* The exceptions of the remote service that the facade is to translate.
Translatable == DeniedErrors \cup {"cinder_exception.NotFound", "cinder_exception.Invalid"}

(***************************************************************************)
(* C12 as claimed: no public operation of the facade lets a remote         *)
(* Forbidden, NotAuthenticated, MissingCredentialError, NotFound or        *)
(* Invalid reach its caller untranslated.                                  *)
(***************************************************************************)
C12_Original == ret.op \in FacadeOps => ret.raised \notin Translatable

(***************************************************************************)
(* C13 as claimed: no public operation of the facade hands its caller the  *)
(* remote service's connectivity error; a service that cannot be reached   *)
(* makes the operation end with cinderConnectionFailed.                    *)
(***************************************************************************)
C13_Original == ret.op \in FacadeOps => ret.raised # ClientConnectionError

(***************************************************************************)
(* C14 and C15: the calls of fetch_func that one _fetch_volumes makes.      *)
(***************************************************************************)
\* The i-th call was made with an integer limit that the page it returned
\* used up.
Exhausted(i) ==
    /\ "limit" \in DOMAIN ret.fetches[i].kwargs
    /\ ret.fetches[i].kwargs["limit"].py = "int"
    /\ ret.fetches[i].kwargs["limit"].v - Len(ret.fetches[i].got) <= 0

(***************************************************************************)
(* C14: _fetch_volumes over the catalog ends.  It makes no call after a    *)
(* call that returned an empty page, nor after one that left a remaining   *)
(* limit of zero or below; when it returns, its last call returned an      *)
(* empty page or used up the limit; it makes at most one call more than it *)
(* yields records, yields no more records than the store holds, and with a *)
(* limit L supplied makes at most L calls.                                 *)
(***************************************************************************)
C14_EndsOnEmptyPageOrLimit ==
    Listed =>
        /\ \A i \in 1..(Len(ret.fetches) - 1) :
            ret.fetches[i].got # << >> /\ ~Exhausted(i)
        /\ Len(ret.fetches) >= 1
        /\ ret.raised = ""
            => \/ ret.fetches[Len(ret.fetches)].got = << >>
               \/ Exhausted(Len(ret.fetches))
        /\ Len(ret.fetches) <= Len(ret.value) + 1
        /\ Len(ret.value) <= Len(Catalog)
        /\ LimitSupplied => Len(ret.fetches) <= ret.kwargs["limit"].v

\* A listing that ended in its third call, which used up the limit.
C14_Witness ==
    /\ Listed
    /\ ret.raised = ""
    /\ Len(ret.fetches) = 3
    /\ ret.fetches[3].got # << >>
    /\ Exhausted(3)

\* A listing without a limit that ended on the empty page of its fourth call.
C14_WitnessEmptyPage ==
    /\ Listed
    /\ ret.raised = ""
    /\ "limit" \notin DOMAIN ret.kwargs
    /\ Len(ret.fetches) = 4
    /\ ret.fetches[4].got = << >>

\* The keyword arguments of a call other than marker and limit.
Forwarded(kwargs) == Restrict(kwargs, DOMAIN kwargs \ {"marker", "limit"})

\* The ids of the records yielded, in order.
YieldedIds == [j \in 1..Len(ret.value) |-> Get(ret.value[j], "id")]

(***************************************************************************)
(* C15: in one _fetch_volumes the first call of fetch_func gets the        *)
(* keyword arguments of the caller; every later call gets as marker the id *)
(* of the last record of the page before it, a limit exactly when the call *)
(* before it had one, and every other argument (filters, sort_key,         *)
(* sort_dir) as the call before it had it; over the catalog, which is      *)
(* served in a fixed order from the marker on, no id is yielded twice.     *)
(***************************************************************************)
C15_CursorAdvances ==
    Listed =>
        /\ ret.fetches[1].kwargs = ret.kwargs
        /\ \A i \in 2..Len(ret.fetches) :
            /\ "marker" \in DOMAIN ret.fetches[i].kwargs
            /\ ret.fetches[i].kwargs["marker"]
                = ret.fetches[i - 1].got[Len(ret.fetches[i - 1].got)]
            /\ Forwarded(ret.fetches[i].kwargs) = Forwarded(ret.fetches[i - 1].kwargs)
            /\ "limit" \in DOMAIN ret.fetches[i].kwargs
                <=> "limit" \in DOMAIN ret.fetches[i - 1].kwargs
        /\ \A a, b \in 1..Len(ret.value) : YieldedIds[a] = YieldedIds[b] => a = b

\* A filtered, sorted listing whose second call started after the last
\* record of a first page of several records and returned more records.
C15_Witness ==
    /\ Listed
    /\ Len(ret.fetches) >= 2
    /\ Len(ret.fetches[1].got) >= 2
    /\ ret.fetches[2].got # << >>
    /\ "sort_key" \in DOMAIN ret.kwargs
    /\ ret.fetches[2].kwargs["marker"] = ret.fetches[1].got[Len(ret.fetches[1].got)]

\* A listing under a filter whose second call carried the filter on.
C15_WitnessFilter ==
    /\ Listed
    /\ "filters" \in DOMAIN ret.kwargs
    /\ Len(ret.fetches) >= 2
    /\ ret.fetches[2].got # << >>
    /\ ret.fetches[2].kwargs["filters"] = ret.kwargs["filters"]

(***************************************************************************)
(* C16 as claimed: the fake's show_by_name, asked for the display_name of  *)
(* a record that create has stored, returns a stored record of that        *)
(* display_name and does not raise.                                        *)
(***************************************************************************)
C16_Original ==
    (/\ ret.op = "fake.show_by_name"
     /\ \E k \in DOMAIN volumes : Get(volumes[k], DisplayNameKey) = ret.name)
    => /\ ret.raised = ""
       /\ \E k \in DOMAIN volumes :
            volumes[k] = ret.value /\ Get(ret.value, DisplayNameKey) = ret.name

(***************************************************************************)
(* C17 as claimed: whatever calls of create, update and delete the fake    *)
(* service has served, every record it stores carries the id it is stored  *)
(* under, and so does the record that show returns for that id.            *)
(***************************************************************************)
C17_Original ==
    /\ \A k \in DOMAIN volumes : Get(volumes[k], "id") = k
    /\ (ret.op = "fake.show" /\ ret.raised = "")
        => Get(ret.value, "id") = PyStr(str(ret.volume_id))

(***************************************************************************)
(* C18 and C19: the translation of records from and to the remote form.    *)
(***************************************************************************)
\* The fixed attributes of a record in its local form.
FixedAttributes ==
    {"id", "size", "display_name", "created_at", "updated_at",
     "deleted_at", "deleted", "status", "attached"}

(***************************************************************************)
(* C18 as claimed: the record that show returns, which is the remote       *)
(* record after _translate_from_cinder, has exactly the fixed attributes   *)
(* and properties as its keys, and its attached is the remote record's.    *)
(***************************************************************************)
C18_Original ==
    (ret.op = "show" /\ ret.raised = "")
    => /\ DOMAIN ret.value = FixedAttributes \cup {"properties"}
       /\ Get(ret.value, "attached") = Get(Record(store, ret.volume_id), "attached")

\* A property that the translations are to give back as it was: any but a
\* block_device_mapping or mappings that is a string already.
KeptProperty(properties, attr) ==
    /\ attr \in DOMAIN properties
    /\ attr \in {"block_device_mapping", "mappings"} => properties[attr].py # "str"

\* The record translated holds a block_device_mapping or mappings that is
\* no string.
HoldsStructured ==
    \E attr \in {"block_device_mapping", "mappings"} :
        /\ attr \in DOMAIN ret.volume_meta["properties"]
        /\ ret.volume_meta["properties"][attr].py # "str"

(***************************************************************************)
(* C19 as claimed: a record with a structured block_device_mapping or      *)
(* mappings, translated to the remote form and back, comes back without an *)
(* error, with the same properties and with each structured property equal *)
(* to what it was.                                                         *)
(***************************************************************************)
C19_Original ==
    (ret.op = "translate" /\ HoldsStructured)
    => /\ ret.raised = ""
       /\ DOMAIN ret.value["properties"] = DOMAIN ret.volume_meta["properties"]
       /\ \A attr \in DOMAIN ret.volume_meta["properties"] :
            KeptProperty(ret.volume_meta["properties"], attr)
                => ret.value["properties"][attr] = ret.volume_meta["properties"][attr]

(***************************************************************************)
(* C20: pick_cinder_api_server.                                            *)
(***************************************************************************)
\* The exceptions of this service that say the configuration or a volume
\* reference is wrong.
ConfigurationErrors == {"exception.InvalidvolumeRef"}

(***************************************************************************)
(* C20 as claimed: pick_cinder_api_server returns the host and port of an  *)
(* entry of FLAGS.cinder_api_servers when there is one, and fails with a   *)
(* configuration error when there is none.                                 *)
(***************************************************************************)
C20_Original ==
    ret.op = "pick_cinder_api_server"
    => IF ret.cinder_api_servers = << >> THEN ret.raised \in ConfigurationErrors
       ELSE /\ ret.raised = ""
            /\ \E i \in DOMAIN ret.cinder_api_servers :
                /\ ret.value.host = ret.cinder_api_servers[i].host
                /\ ret.value.port = int(ret.cinder_api_servers[i].port_str)

(***************************************************************************)
(* C21 and C22: the remote calls that one create, update or delete makes.  *)
(***************************************************************************)
\* ret is the result of a writing call of the cinder-backed service.
Written == ret.op \in {"create", "update", "delete"}

\* The remote calls that change the server's records.
MutatingCalls == {"add_volume", "update_volume", "delete_volume"}

\* The remote call that the operation op makes to change the records.
MutatingCallOf(op) ==
    IF op = "create" THEN "add_volume"
    ELSE IF op = "update" THEN "update_volume"
    ELSE "delete_volume"

\* The places of log where the remote call name was made.
CallsOf(log, name) == {i \in DOMAIN log : log[i].call = name}

\* The places of log where a call that changes the records was made.
Mutations(log) == {i \in DOMAIN log : log[i].call \in MutatingCalls}

(***************************************************************************)
(* C21: one create, update or delete makes the remote call that changes    *)
(* the records at most once (create exactly once), whatever the call meets *)
(* and a connectivity error included; it makes no other changing call;     *)
(* nothing follows the changing call, no wait and no further attempt; the  *)
(* only remote call made more than once is the lookup get_volume_meta, and *)
(* every wait comes right after a lookup that met a connectivity error.    *)
(***************************************************************************)
C21_MutationAtMostOnce ==
    Written =>
        /\ Cardinality(Mutations(ret.log)) <= 1
        /\ Mutations(ret.log) \subseteq CallsOf(ret.log, MutatingCallOf(ret.op))
        /\ ret.op = "create" => Cardinality(Mutations(ret.log)) = 1
        /\ \A i \in Mutations(ret.log) : i = Len(ret.log)
        /\ \A i \in DOMAIN ret.log :
            ret.log[i] = Sleep
                => /\ i > 1
                   /\ ret.log[i - 1] = Event("get_volume_meta", ClientConnectionError)
        /\ \A i, j \in DOMAIN ret.log :
            (i # j /\ ret.log[i].call = ret.log[j].call)
                => ret.log[i].call \in {"_get_client", "time.sleep", "get_volume_meta"}

\* An update whose lookup was answered in its second attempt and whose
\* update_volume then met a connectivity error, which the caller received
\* after that one call.
C21_Witness ==
    /\ ret.op = "update"
    /\ ret.plan.k = 1
    /\ ret.outcome = ClientConnectionError
    /\ Cardinality(CallsOf(ret.log, "get_volume_meta")) = 2
    /\ Cardinality(CallsOf(ret.log, "update_volume")) = 1
    /\ ret.log[Len(ret.log)] = Event("update_volume", ClientConnectionError)
    /\ ret.raised = ClientConnectionError

\* The lookup of the call r found, in the records st, a record of the id
\* that the caller may see.
ShowPassed(r, st) ==
    /\ LookupAnswered(r)
    /\ Has(st, r.volume_id)
    /\ _is_volume_available(r.context, Record(st, r.volume_id))

\* The delete r, of a record of st, is refused by the check of the owner.
OwnerRejects(r, st) ==
    /\ r.op = "delete"
    /\ r.flags.auth_strategy = "deprecated"
    /\ \/ NotTheOwner(r.context, Record(st, r.volume_id)["properties"], "project_id")
       \/ NotTheOwner(r.context, Record(st, r.volume_id)["properties"], "owner_id")

(***************************************************************************)
(* C22: an update or delete makes its changing remote call exactly when    *)
(* its show of the same id has passed (the lookup was answered, the record *)
(* is stored and the caller may see it) and, for a delete under the        *)
(* deprecated auth strategy, the check of the owner has passed too; the    *)
(* changing call then comes after the lookup that was answered.  A call    *)
(* that makes no changing call leaves the server's records as they were.   *)
(***************************************************************************)
C22_CheckBeforeMutate ==
    [][(ret.op = "idle" /\ ret'.op \in {"update", "delete"})
        => /\ Mutations(ret'.log) # {}
                <=> (ShowPassed(ret', store) /\ ~OwnerRejects(ret', store))
           /\ \A i \in Mutations(ret'.log) :
                \E j \in 1..(i - 1) : ret'.log[j] = Event("get_volume_meta", "ok")
           /\ Mutations(ret'.log) = {} => store' = store]_vars

\* A delete under the deprecated auth strategy of a stored record that the
\* caller, an admin of another tenant, may see but does not own: refused
\* with NotAuthorized, no delete_volume made, the record still stored.
C22_Witness ==
    /\ ret.op = "delete"
    /\ ret.flags.auth_strategy = "deprecated"
    /\ ret.raised = "exception.NotAuthorized"
    /\ ret.arg = PyStr("Not the volume owner")
    /\ Mutations(ret.log) = {}
    /\ Has(store, ret.volume_id)
    /\ CallsOf(ret.log, "get_volume_meta") # {}

\* An update that changed the record after its lookup was answered in the
\* second attempt.
C22_WitnessUpdate ==
    /\ ret.op = "update"
    /\ ret.plan.k = 1
    /\ ret.raised = ""
    /\ ret.log[Len(ret.log)] = Event("update_volume", "ok")

(***************************************************************************)
(* C23: two calls of delete for one id at once.                            *)
(***************************************************************************)
\* Both calls have ended.
BothDone == running # NotRunning /\ \A p \in Procs : running.calls[p].pc = "done"

\* The caller of the call p may see the record the calls began with.
SeenBy(p) == _is_volume_available(running.calls[p].context, running.record)

\* The check of the owner lets the caller of the call p delete that record.
OwnerAllows(p) ==
    running.flags.auth_strategy = "deprecated"
    => /\ ~NotTheOwner(running.calls[p].context, running.record["properties"], "project_id")
       /\ ~NotTheOwner(running.calls[p].context, running.record["properties"], "owner_id")

\* The calls whose delete_volume removed the record.
Removers ==
    { p \in Procs : /\ running.calls[p].log # << >>
                    /\ running.calls[p].log[Len(running.calls[p].log)]
                        = Event("delete_volume", "ok") }

\* One call returned, the other raised volumeNotFound for the id, one
\* delete_volume removed the record and the record is gone.
OneDeleted ==
    /\ \E p, q \in Procs :
        /\ p # q
        /\ running.calls[p].raised = ""
        /\ running.calls[q].raised = "exception.volumeNotFound"
        /\ running.calls[q].arg = running.volume_id
    /\ Cardinality(Removers) = 1
    /\ running.volume_id \notin DOMAIN store

(***************************************************************************)
(* C23 as claimed: when two calls of delete for a stored record that both  *)
(* callers may see have ended, in whatever order their steps were taken,   *)
(* one has returned, the other has raised volumeNotFound, and the record   *)
(* was removed once.                                                       *)
(***************************************************************************)
C23_Original == (BothDone /\ \A p \in Procs : SeenBy(p)) => OneDeleted

(***************************************************************************)
(* C23 as amended: the same of a stored record that both callers may see   *)
(* and that the check of the owner, made under the deprecated auth         *)
(* strategy, lets both of them delete; and at no time have two calls       *)
(* removed the record.                                                     *)
(***************************************************************************)
C23_OneDeletesWhenBothMay ==
    /\ running # NotRunning => Cardinality(Removers) <= 1
    /\ (BothDone /\ \A p \in Procs : SeenBy(p) /\ OwnerAllows(p)) => OneDeleted

\* Both calls made their show before either made its delete_volume; the
\* second delete_volume met the server's NotFound, which its caller received
\* as volumeNotFound.
C23_Witness ==
    /\ BothDone
    /\ \A p \in Procs : SeenBy(p) /\ OwnerAllows(p)
    /\ \E q \in Procs :
        /\ running.calls[q].log[Len(running.calls[q].log)]
            = Event("delete_volume", "cinder_exception.NotFound")
        /\ running.calls[q].raised = "exception.volumeNotFound"
    /\ running.flags.auth_strategy = "deprecated"

(***************************************************************************)
(* C24: a listing whose backend serves a record without an id.             *)
(***************************************************************************)
ListedWithoutId == ret.op = "_fetch_volumes, a record without id"

\* The i-th call returned a page whose last record has no id.
LastLacksId(i) ==
    /\ ret.fetches[i].got # << >>
    /\ ret.fetches[i].got[Len(ret.fetches[i].got)] = None

\* The number of records that the calls up to the i-th returned.
RECURSIVE Got(_)
Got(i) == IF i = 0 THEN 0 ELSE Got(i - 1) + Len(ret.fetches[i].got)

(***************************************************************************)
(* C24: _fetch_volumes raises volumePaginationFailed exactly when the last *)
(* record of the page of its last call has no id; a call that returned     *)
(* such a page is the last call; the records of that page, the one without *)
(* id among them, have been yielded when the exception is raised; a record *)
(* without id elsewhere in a page is yielded and raises nothing.           *)
(***************************************************************************)
C24_PaginationFailedOnLastWithoutId ==
    ListedWithoutId =>
        /\ \A i \in DOMAIN ret.fetches : LastLacksId(i) => i = Len(ret.fetches)
        /\ ret.raised = "exception.volumePaginationFailed" <=> LastLacksId(Len(ret.fetches))
        /\ Len(ret.value) = Got(Len(ret.fetches))
        /\ \A j \in DOMAIN ret.value :
            "id" \notin DOMAIN ret.value[j] => ret.value[j] = WithoutId(ret.idless)[ret.idless]
        /\ (ret.raised # "exception.volumePaginationFailed"
                /\ \E j \in DOMAIN ret.value : "id" \notin DOMAIN ret.value[j])
            => ret.raised \in {"", "TypeError"}

\* The second page ended with the record without id: its three records
\* were yielded, the exception raised and no third call made, although the
\* script had a third page.
C24_Witness ==
    /\ ListedWithoutId
    /\ ret.idless = 6
    /\ ret.script.sizes = <<3, 3, 2>>
    /\ "limit" \notin DOMAIN ret.kwargs
    /\ ret.raised = "exception.volumePaginationFailed"
    /\ Len(ret.fetches) = 2
    /\ Len(ret.value) = 6
    /\ "id" \notin DOMAIN ret.value[6]

\* The record without id was in the middle of the first page: it was
\* yielded, nothing was raised and the listing went on to the end.
C24_WitnessNotLast ==
    /\ ListedWithoutId
    /\ ret.idless = 2
    /\ ret.script.sizes = <<3, 3, 2>>
    /\ "limit" \notin DOMAIN ret.kwargs
    /\ ret.raised = ""
    /\ Len(ret.value) = 8
    /\ "id" \notin DOMAIN ret.value[2]

(***************************************************************************)
(* C25 as claimed: in a call that goes through _call_retry the client is   *)
(* resolved once for each attempt, every wait is followed by a further     *)
(* attempt, and a call that ends with cinderConnectionFailed has waited    *)
(* cinder_num_retries times.                                               *)
(***************************************************************************)
C25_Original ==
    Retried =>
        /\ Cardinality({i \in DOMAIN ret.log : ret.log[i] = GetClient}) = Attempts(ret.log)
        /\ \A i \in DOMAIN ret.log :
            ret.log[i] = Sleep
                => \E j \in DOMAIN ret.log :
                    j > i /\ ret.log[j].call \in {"get_volume_meta", "get_volume"}
        /\ ret.raised = "exception.cinderConnectionFailed"
            => Sleeps(ret.log) = ret.flags.cinder_num_retries

====
